---- MODULE Spec2Model ----
(***************************************************************************)
(* Streaming playback engine of ESP32_Audio (audio_player.c).              *)
(*                                                                         *)
(* The engine is a set of FreeRTOS tasks that share the static variables   *)
(* of audio_player.c without any lock: the command callers (HTTP and MQTT  *)
(* handlers), the audio event task, the timer service task (prebuffer and  *)
(* volume timers) and the one-shot reconnect tasks.  Each task is modelled *)
(* with a program counter; one action is one stretch of a function between *)
(* two points where another task may run.                                  *)
(***************************************************************************)
EXTENDS Integers, Sequences, FiniteSets, TLC

\* ---------------------------------------------------------------- bounds
\* Spec: commands the two callers may issue, events the chain and the board
\* may emit, in one behaviour.
MaxCmds == 2
MaxEvents == 2
\* SpecRecon: commands of the single caller, events of the chain.
ReconCmds == 2
ReconEvents == 2
\* SpecGuard: play and stop commands of the single caller, events of the
\* chain.
GuardCmds == 1
GuardEvents == 2
\* SpecMon: commands of the single caller.
MonCmds == 3
\* SpecVol: set_volume and mute calls.
VolCmds == 3
\* SpecSlow: play commands of the single caller, error reports of the chain.
ArgCmds == 2
SnapCmds == 2
ErrCmds == 1
ErrEvents == 2
SlowCmds == 1
SlowEvents == 2
\* SpecCb: callbacks registered, that of app_main included.
MaxSubscribers == 2
\* SpecEq: calls of the settings functions.
EqCmds == 2
\* SpecBoot: set_volume calls and volume steps, restarts.
BootCmds == 2
MaxBoots == 1

\* ------------------------------------------------------ program constants
PREBUFFER_TICKS == 30
MIN_VOLUME == 0
MAX_VOLUME == 100
DEFAULT_VOLUME == 50
\* .volume of the static settings of audio_settings.c
SETTINGS_VOLUME == 50
\* audio_settings.h
EQ_MAX == 24
EQ_BANDS == 10
EQ_PRESET_FLAT == 0
EQ_PRESET_CUSTOM == 9
EQ_PRESET_MAX == 10
\* The band tables of the presets, FLAT first, CUSTOM last.
presets ==
    << <<12, 12, 12, 12, 12, 12, 12, 12, 12, 12>>,
       <<15, 14, 10, 9, 11, 13, 15, 15, 14, 14>>,
       <<10, 11, 13, 15, 15, 14, 12, 11, 12, 12>>,
       <<14, 13, 11, 13, 10, 12, 12, 13, 14, 14>>,
       <<12, 12, 12, 12, 12, 10, 9, 9, 11, 13>>,
       <<18, 17, 15, 13, 12, 12, 12, 12, 12, 12>>,
       <<9, 10, 12, 14, 16, 16, 15, 13, 11, 10>>,
       <<16, 15, 12, 10, 11, 10, 12, 14, 15, 16>>,
       <<13, 13, 12, 12, 13, 13, 12, 12, 13, 12>>,
       <<12, 12, 12, 12, 12, 12, 12, 12, 12, 12>> >>
\* The equaliser keys of an NVS namespace that was never written.
NoBlob == [bands |-> <<>>, preset |-> 0 - 1, balance |-> 0]
\* equalizer of audio_player.c: audio_player_init leaves it NULL.
equalizer == "NULL"

\* ------------------------------------------------------------------ tasks
Callers == {"http", "mqtt"}
SoloCallers == {"http"}
RcTasks == {"rc1", "rc2"}
Tasks == Callers \cup {"event", "timer"} \cup RcTasks

\* Callbacks a module may register: that of app_main and another one.
Subscribers == {"player_state_handler", "second_handler"}

\* Source identifiers a caller may pass ("" is the empty string).
SoloUrls == {"u1"}
Urls == {"u1", "u2"}
\* Fill ratios (percent) of the I2S input ring buffer.
FillLevels == {0, 2, 100}
\* Arguments a caller may pass to audio_player_set_volume.
VolInputs == {0 - 5, 30, 70, 105}
\* Arguments of the settings functions: bands (10 is beyond the last), levels
\* (30 is above EQ_MAX), presets (ROCK, BASS_BOOST, and EQ_PRESET_MAX, which
\* is none), balances within int8_t.
BandInputs == {0, 9, 10}
LevelInputs == {0, 20, 30}
PresetInputs == {1, 5, 10}
BalanceInputs == {0 - 128, 0 - 50, 55}
\* Band and preset numbers as a request may carry them: below the first,
\* the first, the last, and beyond the last.
ArgBands == {0 - 1, 0, 9, 10}
ArgPresets == {0 - 1, 0, 9, 10}
\* The same for SpecBoot: values at and beyond both ends of the range.
BootInputs == {0 - 5, 95, 300}

VARIABLES
    \* player_status
    state, source, current_url, volume, muted,
    \* the ESP-ADF pipeline and its elements
    chain, i2sPaused, httpUri, realFill, elemTasks,
    \* the event interface queue read by audio_event_task
    evtQueue,
    reconnect_in_progress,
    \* buffer monitor
    prebuffer_counter, current_buffer_percent, timerActive,
    \* per-task control state: position, url argument, last return value
    pc, arg, ret,
    \* the subscriber's copy of the status (current_status of the main module)
    delivered,
    \* history: the state a task wrote and has not yet notified, the order of
    \* those writes, and the kinds of task that wrote each shared variable
    wrote, writeOrder, stateWriters, guardWriters,
    \* history: a stop() has returned ESP_OK and no pipeline run has
    \* succeeded since; the url current_url held when the event task created
    \* the reconnect task that is alive
    stopReturned, detectedUrl,
    nCmds, nEvents,
    \* volume debounce: pending_volume, whether volume_timer is running, the
    \* volume register of the codec
    pending_volume, volTimerArmed, hwVolume,
    \* history of the set_volume calls of a behaviour: codec writes made by
    \* volume_timer_callback, timer restarts, the value of the latest call,
    \* and whether the calls so far form one burst (see VolReset)
    hwWrites, nResets, lastVol, burstOk,
    \* audio_settings: settings.volume, the "volume" key of the NVS namespace
    \* (-1: no such key), whether a debounced save is due, restarts so far
    settingsVolume, nvsVolume, saveArmed, nBoots,
    \* audio_settings: settings_dirty, settings.bands (band b is element
    \* b + 1), settings.preset, settings.balance, and the equaliser keys of
    \* the NVS namespace as the last save wrote them (NoBlob: never written)
    settings_dirty, bands, preset, balance, nvsEq,
    \* eq_gain of audio_player.c and the gain table of the equalizer element
    \* (20 cells: left 1..10, right 11..20)
    eq_gain, sinkGain,
    \* how many bytes the memcpy of audio_settings_apply_preset has copied
    copyIdx,
    \* per task: the band or preset number of the settings call it is in
    eqArg,
    \* history: the band tables settings.bands held before or was given by a
    \* whole call, flash writes of the settings, and whether every
    \* schedule_save so far found the save timer running
    cleanTables, nSaves, saveBurstOk,
    \* state_callback of audio_player.c; history: every callback that was
    \* registered
    state_callback, registered,
    \* api_status_handler: how far it has read the status it got from
    \* audio_player_get_status (0: it holds none), the fields it has read;
    \* history: the fields as they were when audio_player_get_status returned
    rdStep, rdSeen, rdSnap

\* Variable groups for the frame conditions.
urlVars == <<source, current_url>>
pipeVars == <<chain, i2sPaused, httpUri, realFill, elemTasks>>
monVars == <<prebuffer_counter, current_buffer_percent, timerActive>>
cntVars == <<nCmds, nEvents>>
histVars == <<guardWriters, stopReturned, detectedUrl>>
rdVars == <<rdStep, rdSeen, rdSnap>>
cbVars == <<state_callback, registered, rdVars>>
setVars == <<settingsVolume, saveArmed, settings_dirty, saveBurstOk>>
eqVars == <<bands, preset, balance, eq_gain, sinkGain, copyIdx, cleanTables>>
nvsVars == <<nvsVolume, nvsEq, nSaves>>
volVars == <<volume, muted, pending_volume, volTimerArmed, hwVolume,
            hwWrites, nResets, lastVol, burstOk, setVars, eqVars, eqArg,
            nvsVars, nBoots, cbVars>>

engineVars == <<state, urlVars, pipeVars, evtQueue, reconnect_in_progress,
                monVars, pc, arg, ret, delivered,
                wrote, writeOrder, stateWriters, histVars, cntVars>>

vars == <<engineVars, volVars>>

\* ---------------------------------------------------------------- helpers
\* The fields of player_status_t a reader of the status looks at.
StatusFields(s, v, m) == [state |-> s, volume |-> v, muted |-> m]

Kind(t) ==
    IF t \in Callers THEN "command"
    ELSE IF t \in RcTasks THEN "reconnect"
    ELSE t

\* Where a task continues when an API function returns.
Cont(t) ==
    IF t \in RcTasks THEN "rc_clear" ELSE "idle"

\* The url argument of play_url as the callee reads it.  The reconnect task
\* is handed a pointer to player_status.current_url, so it reads whatever
\* the buffer holds at the time of the read.
Arg(t) ==
    IF t \in RcTasks THEN current_url ELSE arg[t]

Min(a, b) == IF a < b THEN a ELSE b

SeqRemove(s, x) == SelectSeq(s, LAMBDA y : y # x)

\* set_state, first half: player_status.state = s.
WriteState(t, s) ==
    /\ state' = s
    /\ wrote' = [wrote EXCEPT ![t] = s]
    /\ writeOrder' = Append(SeqRemove(writeOrder, t), t)
    /\ stateWriters' = stateWriters \cup {Kind(t)}

NoWrite == UNCHANGED <<state, wrote, writeOrder, stateWriters>>

\* set_state, second half: notify_state_change hands &player_status to the
\* callback in state_callback, if there is one.  player_state_handler copies
\* the status as it is when the callback runs; delivered holds that copy and
\* the callbacks the latest notification invoked.
NotifyStateChange(t) ==
    /\ delivered' =
         IF state_callback = "player_state_handler"
         THEN [state |-> state, volume |-> volume, muted |-> muted,
               to |-> {state_callback}]
         ELSE [delivered EXCEPT
                 !.to = IF state_callback = "NULL" THEN {}
                        ELSE {state_callback}]
    /\ wrote' = [wrote EXCEPT ![t] = "none"]
    /\ writeOrder' = SeqRemove(writeOrder, t)
    /\ UNCHANGED <<state, stateWriters>>

Goto(t, l) == pc' = [pc EXCEPT ![t] = l]

\* The value a function returns; only the command callers look at it.
Return(t, r) ==
    IF t \in Callers THEN ret' = [ret EXCEPT ![t] = r] ELSE UNCHANGED ret

\* get_real_buffer_level: filled * 100 / total of the I2S input ring buffer.
get_real_buffer_level == realFill

Init ==
    /\ state = "Idle"
    /\ source = "None"
    /\ current_url = ""
    /\ volume = DEFAULT_VOLUME
    /\ muted = FALSE
    /\ chain = "stopped"
    /\ i2sPaused = FALSE
    /\ httpUri = ""
    /\ realFill = 0
    /\ elemTasks = FALSE
    /\ evtQueue = <<>>
    /\ reconnect_in_progress = FALSE
    /\ prebuffer_counter = 0
    /\ current_buffer_percent = 0
    /\ timerActive = FALSE
    /\ pc = [t \in Tasks |-> IF t \in RcTasks THEN "none" ELSE "idle"]
    /\ arg = [t \in Tasks |-> ""]
    /\ ret = [t \in Tasks |-> "none"]
    /\ delivered = [state |-> "Idle", volume |-> DEFAULT_VOLUME,
                    muted |-> FALSE, to |-> {"player_state_handler"}]
    /\ state_callback = "player_state_handler"
    /\ registered = {"player_state_handler"}
    /\ eqArg = [x \in Tasks |-> 0]
    /\ rdStep = 0
    /\ rdSeen = StatusFields("Idle", DEFAULT_VOLUME, FALSE)
    /\ rdSnap = StatusFields("Idle", DEFAULT_VOLUME, FALSE)
    /\ wrote = [t \in Tasks |-> "none"]
    /\ writeOrder = <<>>
    /\ stateWriters = {}
    /\ guardWriters = {}
    /\ stopReturned = FALSE
    /\ detectedUrl = ""
    /\ nCmds = 0
    /\ nEvents = 0
    /\ pending_volume = 0 - 1
    /\ volTimerArmed = FALSE
    /\ hwVolume = DEFAULT_VOLUME
    /\ hwWrites = 0
    /\ nResets = 0
    /\ lastVol = DEFAULT_VOLUME
    /\ burstOk = TRUE
    /\ settingsVolume = SETTINGS_VOLUME
    /\ nvsVolume = 0 - 1
    /\ saveArmed = TRUE
    /\ nBoots = 0
    /\ settings_dirty = TRUE
    /\ bands = presets[EQ_PRESET_FLAT + 1]
    /\ preset = EQ_PRESET_FLAT
    /\ balance = 0
    /\ nvsEq = NoBlob
    /\ eq_gain = [c \in 1..(2 * EQ_BANDS) |-> 0]
    /\ sinkGain = [c \in 1..(2 * EQ_BANDS) |-> 0]
    /\ copyIdx = 0
    /\ cleanTables = {presets[EQ_PRESET_FLAT + 1]}
    /\ nSaves = 0
    /\ saveBurstOk = TRUE

\* ------------------------------------------------- audio_player_play_url
\* An entry that stops the running chain before it looks at the argument.
PlayEnterStopsFirst(t, url) ==
    /\ chain' = "stopped"
    /\ IF url = ""
       THEN /\ Return(t, "ESP_ERR_INVALID_ARG")
            /\ Goto(t, Cont(t))
            /\ UNCHANGED arg
       ELSE /\ Return(t, "none")
            /\ arg' = [arg EXCEPT ![t] = IF t \in RcTasks THEN "" ELSE url]
            /\ Goto(t, "play_seturi")

\* The argument check, then audio_pipeline_stop and
\* audio_pipeline_wait_for_stop.  An empty url returns ESP_ERR_INVALID_ARG
\* before anything is touched.
PlayEnter(t, url) ==
    IF url = ""
    THEN /\ Return(t, "ESP_ERR_INVALID_ARG")
         /\ Goto(t, Cont(t))
         /\ UNCHANGED <<chain, arg>>
    ELSE /\ Return(t, "none")
         /\ arg' = [arg EXCEPT ![t] = IF t \in RcTasks THEN "" ELSE url]
         /\ chain' = "stopped"
         /\ Goto(t, "play_seturi")

PlayCall(t, url, maxc) ==
    /\ nCmds < maxc
    /\ pc[t] = "idle"
    /\ nCmds' = nCmds + 1
    /\ PlayEnter(t, url)
    /\ NoWrite
    /\ UNCHANGED <<urlVars, i2sPaused, httpUri, realFill, elemTasks, evtQueue,
                   reconnect_in_progress, monVars, delivered, histVars,
                   nEvents, volVars>>

\* audio_element_set_uri(http_stream, url).
PlaySetUri(t) ==
    /\ pc[t] = "play_seturi"
    /\ httpUri' = Arg(t)
    /\ Goto(t, "play_seturl")
    /\ NoWrite
    /\ UNCHANGED <<urlVars, chain, i2sPaused, realFill, elemTasks, evtQueue,
                   reconnect_in_progress, monVars, arg, ret, delivered,
                   histVars, cntVars, volVars>>

\* strncpy(player_status.current_url, url, ...).
PlaySetUrl(t) ==
    /\ pc[t] = "play_seturl"
    /\ current_url' = Arg(t)
    /\ Goto(t, "play_run")
    /\ NoWrite
    /\ UNCHANGED <<source, pipeVars, evtQueue, reconnect_in_progress, monVars,
                   arg, ret, delivered, histVars, cntVars, volVars>>

\* Reset of ring buffers and elements, audio_pipeline_run, and on ESP_OK the
\* pause of the I2S element, source = HTTP and the write of set_state.
PlayRun(t) ==
    /\ pc[t] = "play_run"
    /\ realFill' = 0
    /\ \E r \in {"ESP_OK", "ESP_FAIL"} :
         IF r = "ESP_OK"
         THEN /\ chain' = "running"
              /\ elemTasks' = TRUE
              /\ i2sPaused' = TRUE
              /\ source' = "HTTP"
              /\ WriteState(t, "Buffering")
              /\ stopReturned' = FALSE
              /\ UNCHANGED detectedUrl
              /\ Goto(t, "play_notify")
              /\ UNCHANGED <<arg, ret>>
         ELSE /\ Return(t, r)
              /\ arg' = [arg EXCEPT ![t] = ""]
              /\ Goto(t, Cont(t))
              /\ NoWrite
              /\ UNCHANGED <<chain, elemTasks, i2sPaused, source,
                             stopReturned, detectedUrl>>
    /\ UNCHANGED <<current_url, httpUri, evtQueue, reconnect_in_progress,
                   monVars, delivered, guardWriters, cntVars, volVars>>

\* notify_state_change of set_state(PLAYER_STATE_BUFFERING).
PlayNotify(t) ==
    /\ pc[t] = "play_notify"
    /\ NotifyStateChange(t)
    /\ Goto(t, "play_resetcnt")
    /\ UNCHANGED <<urlVars, pipeVars, evtQueue, reconnect_in_progress,
                   monVars, arg, ret, histVars, cntVars, volVars>>

\* prebuffer_counter = 0.
PlayResetCounter(t) ==
    /\ pc[t] = "play_resetcnt"
    /\ prebuffer_counter' = 0
    /\ Goto(t, "play_resetpct")
    /\ NoWrite
    /\ UNCHANGED <<urlVars, pipeVars, evtQueue, reconnect_in_progress,
                   current_buffer_percent, timerActive, arg, ret, delivered,
                   histVars, cntVars, volVars>>

\* current_buffer_percent = 0.
PlayResetPercent(t) ==
    /\ pc[t] = "play_resetpct"
    /\ current_buffer_percent' = 0
    /\ Goto(t, "play_return")
    /\ NoWrite
    /\ UNCHANGED <<urlVars, pipeVars, evtQueue, reconnect_in_progress,
                   prebuffer_counter, timerActive, arg, ret, delivered,
                   histVars, cntVars, volVars>>

\* xTimerStart(prebuffer_timer, 0); return ret.
PlayReturn(t) ==
    /\ pc[t] = "play_return"
    /\ timerActive' = TRUE
    /\ Return(t, "ESP_OK")
    /\ arg' = [arg EXCEPT ![t] = ""]
    /\ Goto(t, Cont(t))
    /\ NoWrite
    /\ UNCHANGED <<urlVars, pipeVars, evtQueue, reconnect_in_progress,
                   prebuffer_counter, current_buffer_percent, delivered,
                   histVars, cntVars, volVars>>

\* ---------------------------------------------------- audio_player_stop
\* Entry, audio_pipeline_stop and audio_pipeline_wait_for_stop.  ESP-ADF
\* reports ESP_OK for a running pipeline; for one that is not running the
\* result is the library's to choose.
StopCall(t, maxc) ==
    /\ nCmds < maxc
    /\ pc[t] = "idle"
    /\ nCmds' = nCmds + 1
    /\ chain' = "stopped"
    /\ \E r \in (IF chain # "stopped" THEN {"ESP_OK"}
                 ELSE {"ESP_OK", "ESP_FAIL"}) :
         /\ Return(t, r)
         /\ Goto(t, IF r = "ESP_OK" THEN "stop_setstate" ELSE "idle")
    /\ NoWrite
    /\ UNCHANGED <<urlVars, i2sPaused, httpUri, realFill, elemTasks,
                   evtQueue, reconnect_in_progress, monVars, arg, delivered,
                   histVars, nEvents, volVars>>

\* set_state(PLAYER_STATE_STOPPED): the write.
StopSetState(t) ==
    /\ pc[t] = "stop_setstate"
    /\ WriteState(t, "Stopped")
    /\ Goto(t, "stop_notify")
    /\ UNCHANGED <<urlVars, pipeVars, evtQueue, reconnect_in_progress,
                   monVars, arg, ret, delivered, histVars, cntVars,
                   volVars>>

\* set_state(PLAYER_STATE_STOPPED): the notification; return ret.
StopNotify(t) ==
    /\ pc[t] = "stop_notify"
    /\ NotifyStateChange(t)
    /\ stopReturned' = TRUE
    /\ Goto(t, "idle")
    /\ UNCHANGED <<urlVars, pipeVars, evtQueue, reconnect_in_progress,
                   monVars, arg, ret, guardWriters, detectedUrl, cntVars,
                   volVars>>

\* ------------------------------------ audio_player_pause / _resume
\* audio_pipeline_pause / audio_pipeline_resume act on the element tasks,
\* which exist once a pipeline run has created them.  Without them
\* audio_pipeline_resume fails; what audio_pipeline_pause returns is the
\* library's to choose in every case.  On ESP_OK the state is written.
PauseBody(t) ==
    /\ \E r \in {"ESP_OK", "ESP_FAIL"} :
         /\ Return(t, r)
         /\ IF r = "ESP_OK"
            THEN /\ i2sPaused' = TRUE
                 /\ WriteState(t, "Paused")
                 /\ Goto(t, "pr_notify")
            ELSE /\ Goto(t, "idle")
                 /\ NoWrite
                 /\ UNCHANGED i2sPaused
    /\ UNCHANGED <<urlVars, chain, httpUri, realFill, elemTasks,
                   reconnect_in_progress, monVars, arg, delivered,
                   histVars, nEvents, volVars>>

ResumeBody(t) ==
    /\ \E r \in (IF elemTasks THEN {"ESP_OK", "ESP_FAIL"} ELSE {"ESP_FAIL"}) :
         /\ Return(t, r)
         /\ IF r = "ESP_OK"
            THEN /\ i2sPaused' = FALSE
                 /\ WriteState(t, "Playing")
                 /\ Goto(t, "pr_notify")
            ELSE /\ Goto(t, "idle")
                 /\ NoWrite
                 /\ UNCHANGED i2sPaused
    /\ UNCHANGED <<urlVars, chain, httpUri, realFill, elemTasks,
                   reconnect_in_progress, monVars, arg, delivered,
                   histVars, nEvents, volVars>>

PauseCall(t, maxc) ==
    /\ nCmds < maxc
    /\ pc[t] = "idle"
    /\ nCmds' = nCmds + 1
    /\ PauseBody(t)
    /\ UNCHANGED evtQueue

ResumeCall(t, maxc) ==
    /\ nCmds < maxc
    /\ pc[t] = "idle"
    /\ nCmds' = nCmds + 1
    /\ ResumeBody(t)
    /\ UNCHANGED evtQueue

\* notify_state_change of set_state in pause / resume; return ret.
PauseResumeNotify(t) ==
    /\ pc[t] = "pr_notify"
    /\ NotifyStateChange(t)
    /\ Goto(t, "idle")
    /\ UNCHANGED <<urlVars, pipeVars, evtQueue, reconnect_in_progress,
                   monVars, arg, ret, histVars, cntVars, volVars>>

\* ------------------------------------------------------ audio_event_task
\* The same condition without the test of the guard.
ReconnectWantedNoGuard ==
    /\ source = "HTTP"
    /\ state = "Playing"
    /\ current_url # ""

\* The condition under which a FINISHED status is taken for a dropped
\* stream.
ReconnectWanted ==
    /\ source = "HTTP"
    /\ state = "Playing"
    /\ current_url # ""
    /\ ~reconnect_in_progress

FreeRcTasks == {r \in RcTasks : pc[r] = "none"}

\* reconnect_in_progress = true; xTaskCreate(reconnect_task, ...,
\* (void *)player_status.current_url, ...).
ScheduleReconnect ==
    /\ reconnect_in_progress' = TRUE
    /\ guardWriters' = guardWriters \cup {"event"}
    /\ detectedUrl' = current_url
    /\ UNCHANGED stopReturned
    /\ IF FreeRcTasks = {}
       THEN UNCHANGED pc
       ELSE Goto(IF "rc1" \in FreeRcTasks THEN "rc1" ELSE "rc2", "rc_start")

EvtReady(k) ==
    /\ pc["event"] = "idle"
    /\ evtQueue # <<>>
    /\ Head(evtQueue) = k
    /\ evtQueue' = Tail(evtQueue)

\* AEL_STATUS_STATE_FINISHED reported by http_stream.
EvtHttpFinished ==
    /\ EvtReady("http_finished")
    /\ IF ReconnectWanted
       THEN ScheduleReconnect
       ELSE UNCHANGED <<reconnect_in_progress, histVars, pc>>
    /\ NoWrite
    /\ UNCHANGED <<urlVars, pipeVars, monVars, arg, ret, delivered,
                   cntVars, volVars>>

\* The i2s_stream branch without the test of the source kind: playback is
\* declared finished whenever no reconnect is wanted.
EvtI2sFinishedAlwaysStops ==
    /\ EvtReady("i2s_finished")
    /\ IF ReconnectWanted
       THEN /\ ScheduleReconnect
            /\ NoWrite
       ELSE /\ WriteState("event", "Stopped")
            /\ Goto("event", "evt_notify")
            /\ UNCHANGED <<reconnect_in_progress, histVars>>
    /\ UNCHANGED <<urlVars, pipeVars, monVars, arg, ret, delivered,
                   cntVars, volVars>>

\* AEL_STATUS_STATE_FINISHED reported by i2s_stream: the fallback detection
\* for HTTP, end of playback for the other sources.
EvtI2sFinished ==
    /\ EvtReady("i2s_finished")
    /\ IF ReconnectWanted
       THEN /\ ScheduleReconnect
            /\ NoWrite
       ELSE IF source # "HTTP"
       THEN /\ WriteState("event", "Stopped")
            /\ Goto("event", "evt_notify")
            /\ UNCHANGED <<reconnect_in_progress, histVars>>
       ELSE /\ NoWrite
            /\ UNCHANGED <<reconnect_in_progress, histVars, pc>>
    /\ UNCHANGED <<urlVars, pipeVars, monVars, arg, ret, delivered,
                   cntVars, volVars>>

\* The error branch handled like a dropped stream: a reconnect is scheduled
\* when one is wanted, and the state becomes Error only otherwise.
EvtErrorAsDrop ==
    /\ EvtReady("error")
    /\ IF ReconnectWanted
       THEN /\ ScheduleReconnect
            /\ NoWrite
       ELSE /\ WriteState("event", "Error")
            /\ Goto("event", "evt_notify")
            /\ UNCHANGED <<reconnect_in_progress, histVars>>
    /\ UNCHANGED <<urlVars, pipeVars, monVars, arg, ret, delivered,
                   cntVars, volVars>>

\* A status in AEL_STATUS_ERROR_OPEN..AEL_STATUS_ERROR_UNKNOWN from any
\* element: set_state(PLAYER_STATE_ERROR), the write.
EvtError ==
    /\ EvtReady("error")
    /\ WriteState("event", "Error")
    /\ Goto("event", "evt_notify")
    /\ UNCHANGED <<urlVars, pipeVars, reconnect_in_progress, monVars, arg,
                   ret, delivered, histVars, cntVars, volVars>>

\* notify_state_change of a set_state made by the event task itself.
EvtNotify ==
    /\ pc["event"] = "evt_notify"
    /\ NotifyStateChange("event")
    /\ Goto("event", "idle")
    /\ UNCHANGED <<urlVars, pipeVars, evtQueue, reconnect_in_progress,
                   monVars, arg, ret, histVars, cntVars, volVars>>

\* The board's Play/Pause button: pause when Playing, resume otherwise, both
\* run by the event task itself.
EvtButtonPlay ==
    /\ EvtReady("btn_play")
    /\ IF state = "Playing" THEN PauseBody("event") ELSE ResumeBody("event")
    /\ UNCHANGED nCmds

\* --------------------------------------------------------- reconnect_task
\* if (url && strlen(url) > 0) { vTaskDelay(500 ms);
\* audio_player_play_url(url) ...: url points at player_status.current_url.
\* The step ends after play_url's pipeline stop.
RcPlay(t) ==
    /\ pc[t] = "rc_start"
    /\ PlayEnter(t, Arg(t))
    /\ NoWrite
    /\ UNCHANGED <<urlVars, i2sPaused, httpUri, realFill, elemTasks, evtQueue,
                   reconnect_in_progress, monVars, delivered, histVars,
                   cntVars, volVars>>

\* A reconnect task that ends without clearing the guard.
RcClearKeep(t) ==
    /\ pc[t] = "rc_clear"
    /\ Goto(t, "none")
    /\ NoWrite
    /\ UNCHANGED <<urlVars, pipeVars, evtQueue, reconnect_in_progress, monVars,
                   arg, ret, delivered, histVars, cntVars, volVars>>

\* reconnect_in_progress = false; vTaskDelete(NULL).
RcClear(t) ==
    /\ pc[t] = "rc_clear"
    /\ reconnect_in_progress' = FALSE
    /\ guardWriters' = guardWriters \cup {"reconnect"}
    /\ Goto(t, "none")
    /\ NoWrite
    /\ UNCHANGED <<urlVars, pipeVars, evtQueue, monVars, arg, ret, delivered,
                   stopReturned, detectedUrl, cntVars, volVars>>

\* ------------------------------------------------ prebuffer_timer_callback
\* The buffer percentage computed while Buffering.
BufferingPercent(real_level, counter) ==
    Min(100, IF real_level > 0 THEN real_level
             ELSE (counter * 100) \div PREBUFFER_TICKS)

\* The readiness gate of the Buffering branch.
PrebufferComplete(real_level, counter) ==
    counter >= PREBUFFER_TICKS

\* A monitor that takes corrective action: when the fill is below the
\* low-water mark while Playing it holds the output and goes back to
\* Buffering.
PrebufferTickRebuffers ==
    /\ timerActive
    /\ pc["timer"] = "idle"
    /\ IF state = "Playing" /\ get_real_buffer_level < 30
       THEN /\ current_buffer_percent' = get_real_buffer_level
            /\ prebuffer_counter' = 0
            /\ i2sPaused' = TRUE
            /\ WriteState("timer", "Buffering")
            /\ UNCHANGED <<pc, chain, httpUri, realFill, elemTasks>>
       ELSE /\ IF state = "Buffering"
               THEN /\ prebuffer_counter' = prebuffer_counter + 1
                    /\ current_buffer_percent' =
                           BufferingPercent(get_real_buffer_level,
                                            prebuffer_counter + 1)
                    /\ IF PrebufferComplete(get_real_buffer_level,
                                            prebuffer_counter + 1)
                       THEN Goto("timer", "tick_resume")
                       ELSE UNCHANGED pc
               ELSE IF state = "Playing"
               THEN /\ current_buffer_percent' = get_real_buffer_level
                    /\ prebuffer_counter' = PREBUFFER_TICKS
                    /\ UNCHANGED pc
               ELSE /\ prebuffer_counter' = 0
                    /\ current_buffer_percent' = 0
                    /\ UNCHANGED pc
            /\ NoWrite
            /\ UNCHANGED pipeVars
    /\ UNCHANGED <<urlVars, evtQueue, reconnect_in_progress, timerActive,
                   arg, ret, delivered, histVars, cntVars, volVars>>

\* One expiry of the auto-reload prebuffer timer, up to the call of
\* audio_element_resume.
PrebufferTick ==
    /\ timerActive
    /\ pc["timer"] = "idle"
    /\ IF state = "Buffering"
       THEN /\ prebuffer_counter' = prebuffer_counter + 1
            /\ current_buffer_percent' =
                   BufferingPercent(get_real_buffer_level, prebuffer_counter + 1)
            /\ IF PrebufferComplete(get_real_buffer_level, prebuffer_counter + 1)
               THEN Goto("timer", "tick_resume")
               ELSE UNCHANGED pc
       ELSE IF state = "Playing"
       THEN /\ current_buffer_percent' = get_real_buffer_level
            /\ prebuffer_counter' = PREBUFFER_TICKS
            /\ UNCHANGED pc
       ELSE /\ prebuffer_counter' = 0
            /\ current_buffer_percent' = 0
            /\ UNCHANGED pc
    /\ NoWrite
    /\ UNCHANGED <<urlVars, pipeVars, evtQueue, reconnect_in_progress,
                   timerActive, arg, ret, delivered, histVars, cntVars,
                   volVars>>

\* audio_element_resume(i2s_stream, 0, portMAX_DELAY): the callback waits
\* until the I2S writer runs again.
PrebufferResume ==
    /\ pc["timer"] = "tick_resume"
    /\ i2sPaused' = FALSE
    /\ NoWrite
    /\ Goto("timer", "tick_setstate")
    /\ UNCHANGED <<urlVars, chain, httpUri, realFill, elemTasks, evtQueue,
                   reconnect_in_progress, monVars, arg, ret, delivered,
                   histVars, cntVars, volVars>>

\* set_state(PLAYER_STATE_PLAYING), the write.
PrebufferSetState ==
    /\ pc["timer"] = "tick_setstate"
    /\ WriteState("timer", "Playing")
    /\ Goto("timer", "tick_notify")
    /\ UNCHANGED i2sPaused
    /\ UNCHANGED <<urlVars, chain, httpUri, realFill, elemTasks, evtQueue,
                   reconnect_in_progress, monVars, arg, ret, delivered,
                   histVars, cntVars, volVars>>

\* notify_state_change; current_buffer_percent = 100.
PrebufferNotify ==
    /\ pc["timer"] = "tick_notify"
    /\ NotifyStateChange("timer")
    /\ current_buffer_percent' = 100
    /\ Goto("timer", "idle")
    /\ UNCHANGED <<urlVars, pipeVars, evtQueue, reconnect_in_progress,
                   prebuffer_counter, timerActive, arg, ret, histVars,
                   cntVars, volVars>>

\* ------------------------------------------ audio_player_register_callback
\* state_callback = callback.
RegisterCallback(cb, maxr) ==
    /\ Cardinality(registered) < maxr
    /\ cb \notin registered
    /\ state_callback' = cb
    /\ registered' = registered \cup {cb}
    /\ UNCHANGED <<engineVars, volume, muted, pending_volume, volTimerArmed,
                   hwVolume, hwWrites, nResets, lastVol, burstOk, setVars,
                   eqVars, eqArg, nvsVars, nBoots, rdVars>>

\* ------------------------------------------------- audio_player_get_status
\* What a reader of the status leaves alone.
rdFrame == <<engineVars, volume, muted, pending_volume, volTimerArmed,
             hwVolume, hwWrites, nResets, lastVol, burstOk, setVars,
             eqVars, eqArg, nvsVars, nBoots, state_callback, registered>>

\* player_status_t *status = audio_player_get_status(): the address of
\* player_status itself.
StatusGet ==
    /\ rdStep = 0
    /\ rdStep' = 1
    /\ rdSnap' = StatusFields(state, volume, muted)
    /\ UNCHANGED <<rdSeen, rdFrame>>

\* The reads of api_status_handler, in its order: switch (status->state),
\* then status->volume, then status->muted, each from player_status as it
\* is at that moment; after the last one the handler sends what it has read.
StatusRead ==
    /\ rdStep \in 1..3
    /\ rdStep' = (rdStep + 1) % 4
    /\ rdSeen' = IF rdStep = 1 THEN [rdSeen EXCEPT !.state = state]
                 ELSE IF rdStep = 2 THEN [rdSeen EXCEPT !.volume = volume]
                 ELSE [rdSeen EXCEPT !.muted = muted]
    /\ UNCHANGED <<rdSnap, rdFrame>>

\* ------------------------------------------------ audio_player_set_volume
\* What the volume calls leave alone.
volFrame == <<state, stateWriters, urlVars, pipeVars, evtQueue,
              reconnect_in_progress, monVars, histVars,
              nEvents, nvsVars, nBoots, eqVars, eqArg, cbVars>>

\* A range limit that has lost its upper end.
ClampVolumeLowOnly(v) ==
    IF v < MIN_VOLUME THEN MIN_VOLUME ELSE v

\* The range limit applied to the argument.
ClampVolume(v) ==
    IF v < MIN_VOLUME THEN MIN_VOLUME
    ELSE IF v > MAX_VOLUME THEN MAX_VOLUME
    ELSE v

\* audio_settings_set_volume(uint8_t volume): the range limit and
\* settings.volume = volume.
SettingsVolume(v) ==
    IF v % 256 > 100 THEN 100 ELSE v % 256

\* Entry: the clamp, player_status.volume = volume and
\* audio_settings_set_volume(volume), which schedules the debounced save.
\* The calls so far stop being one burst when an argument lies outside
\* [0, 100].
VolCall(t, v, maxc) ==
    /\ nCmds < maxc
    /\ pc[t] = "idle"
    /\ nCmds' = nCmds + 1
    /\ volume' = ClampVolume(v)
    /\ lastVol' = ClampVolume(v)
    /\ burstOk' = (burstOk /\ v = ClampVolume(v))
    /\ arg' = [arg EXCEPT ![t] = ClampVolume(v)]
    /\ settingsVolume' = SettingsVolume(ClampVolume(v))
    /\ saveArmed' = TRUE
    /\ settings_dirty' = TRUE
    /\ saveBurstOk' = (saveBurstOk /\ saveArmed)
    /\ Return(t, "none")
    /\ Goto(t, "vol_check")
    /\ UNCHANGED <<muted, pending_volume, volTimerArmed, hwVolume, hwWrites,
                   nResets, wrote, writeOrder, delivered, volFrame>>

\* A debounce that keeps the first value of a burst instead of the last.
VolCheckKeepFirst(t) ==
    /\ pc[t] = "vol_check"
    /\ IF muted
       THEN /\ Goto(t, "vol_notify")
            /\ burstOk' = FALSE
            /\ UNCHANGED pending_volume
       ELSE /\ Goto(t, "vol_reset")
            /\ pending_volume' =
                   (IF pending_volume >= 0 THEN pending_volume ELSE arg[t])
            /\ UNCHANGED burstOk
    /\ UNCHANGED <<volume, muted, volTimerArmed, hwVolume, hwWrites, nResets,
                   lastVol, arg, ret, wrote, writeOrder, delivered, nCmds,
                   volFrame, setVars>>

\* if (!player_status.muted && board_handle) pending_volume = volume.
VolCheck(t) ==
    /\ pc[t] = "vol_check"
    /\ IF muted
       THEN /\ Goto(t, "vol_notify")
            /\ burstOk' = FALSE
            /\ UNCHANGED pending_volume
       ELSE /\ Goto(t, "vol_reset")
            /\ pending_volume' = arg[t]
            /\ UNCHANGED burstOk
    /\ UNCHANGED <<volume, muted, volTimerArmed, hwVolume, hwWrites, nResets,
                   lastVol, arg, ret, wrote, writeOrder, delivered, nCmds,
                   volFrame, setVars>>

\* xTimerReset(volume_timer, 0): the one-shot timer runs 50 ms from now.  The
\* calls so far stop being one burst when the timer this call finds is not
\* the running timer the previous call restarted.
VolReset(t) ==
    /\ pc[t] = "vol_reset"
    /\ volTimerArmed' = TRUE
    /\ nResets' = nResets + 1
    /\ burstOk' = (burstOk /\ (nResets = 0 \/ volTimerArmed))
    /\ Goto(t, "vol_notify")
    /\ UNCHANGED <<volume, muted, pending_volume, hwVolume, hwWrites, lastVol,
                   arg, ret, wrote, writeOrder, delivered, nCmds, volFrame, setVars>>

\* notify_state_change(); return ESP_OK.
VolNotify(t) ==
    /\ pc[t] = "vol_notify"
    /\ NotifyStateChange(t)
    /\ arg' = [arg EXCEPT ![t] = ""]
    /\ Return(t, "ESP_OK")
    /\ Goto(t, "idle")
    /\ UNCHANGED <<volVars, urlVars, pipeVars, evtQueue,
                   reconnect_in_progress, monVars, histVars, cntVars>>

\* ------------------------------------------------- volume_timer_callback
\* The timer expires; the callback tests pending_volume >= 0.
VolTimerFire ==
    /\ volTimerArmed
    /\ pc["timer"] = "idle"
    /\ volTimerArmed' = FALSE
    /\ IF pending_volume >= 0
       THEN /\ Goto("timer", "vt_write")
            /\ arg' = [arg EXCEPT !["timer"] = pending_volume]
       ELSE UNCHANGED <<pc, arg>>
    /\ UNCHANGED <<volume, muted, pending_volume, hwVolume, hwWrites, nResets,
                   lastVol, burstOk, ret, wrote, writeOrder, delivered, nCmds,
                   volFrame, setVars>>

\* audio_hal_set_volume(board_handle->audio_hal, pending_volume).  The
\* variable is not volatile and no lock is held: the argument is the value
\* the test loaded or the value of a second load.
VolTimerWrite ==
    /\ pc["timer"] = "vt_write"
    /\ \E v \in {arg["timer"], pending_volume} :
         hwVolume' = v
    /\ hwWrites' = hwWrites + 1
    /\ arg' = [arg EXCEPT !["timer"] = ""]
    /\ Goto("timer", "vt_clear")
    /\ UNCHANGED <<volume, muted, pending_volume, volTimerArmed, nResets,
                   lastVol, burstOk, ret, wrote, writeOrder, delivered, nCmds,
                   volFrame, setVars>>

\* pending_volume = -1.
VolTimerClear ==
    /\ pc["timer"] = "vt_clear"
    /\ pending_volume' = 0 - 1
    /\ Goto("timer", "idle")
    /\ UNCHANGED <<volume, muted, volTimerArmed, hwVolume, hwWrites, nResets,
                   lastVol, burstOk, arg, ret, wrote, writeOrder, delivered,
                   nCmds, volFrame, setVars>>

\* ------------------------------------------------------ audio_player_mute
\* player_status.muted = mute.  A mute call ends the burst of volume calls.
MuteCall(t, m, maxc) ==
    /\ nCmds < maxc
    /\ pc[t] = "idle"
    /\ nCmds' = nCmds + 1
    /\ muted' = m
    /\ burstOk' = FALSE
    /\ arg' = [arg EXCEPT ![t] = m]
    /\ Return(t, "none")
    /\ Goto(t, "mute_write")
    /\ UNCHANGED <<volume, pending_volume, volTimerArmed, hwVolume, hwWrites,
                   nResets, lastVol, wrote, writeOrder, delivered, volFrame, setVars>>

\* audio_hal_set_volume(..., mute ? 0 : player_status.volume).
MuteWrite(t) ==
    /\ pc[t] = "mute_write"
    /\ hwVolume' = (IF arg[t] THEN 0 ELSE volume)
    /\ Goto(t, "vol_notify")
    /\ UNCHANGED <<volume, muted, pending_volume, volTimerArmed, hwWrites,
                   nResets, lastVol, burstOk, arg, ret, wrote, writeOrder,
                   delivered, nCmds, volFrame, setVars>>

\* --------------------------------------------------------- audio_settings
\* What the settings functions and the save timer leave alone.
setFrame == <<state, urlVars, pipeVars, evtQueue, reconnect_in_progress,
              monVars, arg, delivered, wrote, writeOrder, stateWriters, histVars,
              nEvents, volume, muted, pending_volume, volTimerArmed,
              hwVolume, hwWrites, nResets, lastVol, burstOk, nBoots,
              cbVars>>

\* save_timer_callback: the one-shot save timer expires and the callback
\* tests settings_dirty.
SaveTimerFire ==
    /\ saveArmed
    /\ pc["timer"] = "idle"
    /\ saveArmed' = FALSE
    /\ IF settings_dirty THEN Goto("timer", "st_write") ELSE UNCHANGED pc
    /\ UNCHANGED <<settingsVolume, settings_dirty, saveBurstOk, eqVars,
                   nvsVars, eqArg, ret, nCmds, setFrame>>

\* audio_settings_save_internal: every key of the NVS namespace is written
\* from the settings as they are now.
SaveTimerWrite ==
    /\ pc["timer"] = "st_write"
    /\ nvsVolume' = settingsVolume
    /\ nvsEq' = [bands |-> bands, preset |-> preset, balance |-> balance]
    /\ nSaves' = nSaves + 1
    /\ Goto("timer", "st_clear")
    /\ UNCHANGED <<setVars, eqVars, eqArg, ret, nCmds, setFrame>>

\* settings_dirty = false.
SaveTimerClear ==
    /\ pc["timer"] = "st_clear"
    /\ settings_dirty' = FALSE
    /\ Goto("timer", "idle")
    /\ UNCHANGED <<settingsVolume, saveArmed, saveBurstOk, eqVars, nvsVars,
                   eqArg, ret, nCmds, setFrame>>

\* ------------------------------------------------ the equaliser settings
\* The gain in dB of a stored level (12 is 0 dB).
GainDb(level) == level - 12

\* The limit both audio_player.c and apply_balance_to_codec put on a gain.
ClampDb(db) ==
    IF db < 0 - 13 THEN 0 - 13 ELSE IF db > 13 THEN 13 ELSE db

\* Integer division of C: the quotient is truncated toward zero.
CDiv(a, b) ==
    IF a >= 0 THEN a \div b ELSE 0 - ((0 - a) \div b)

\* audio_player_set_eq_band: without an equalizer element nothing is written
\* and ESP_ERR_INVALID_STATE is returned; otherwise both channels of the
\* band get the limited gain, in eq_gain and in the element.
SetEqBand(band, db) ==
    IF equalizer = "NULL"
    THEN UNCHANGED <<eq_gain, sinkGain>>
    ELSE /\ eq_gain' = [eq_gain EXCEPT ![band + 1] = ClampDb(db),
                                       ![band + 1 + EQ_BANDS] = ClampDb(db)]
         /\ sinkGain' = [sinkGain EXCEPT ![band + 1] = ClampDb(db),
                                         ![band + 1 + EQ_BANDS] = ClampDb(db)]

\* apply_eq_to_codec: audio_player_set_eq_all_bands with settings.bands[i] - 12
\* for every band; its result is only logged.
ApplyEqToCodec(table) ==
    IF equalizer = "NULL"
    THEN UNCHANGED <<eq_gain, sinkGain>>
    ELSE /\ eq_gain' = [c \in 1..(2 * EQ_BANDS) |->
                           ClampDb(GainDb(table[((c - 1) % EQ_BANDS) + 1]))]
         /\ sinkGain' = eq_gain'

\* The attenuation of the left and of the right channel for a balance.
LeftAtten(b) == IF b > 0 THEN 0 - CDiv(b * 12, 100) ELSE 0

RightAtten(b) == IF b < 0 THEN CDiv(b * 12, 100) ELSE 0

\* The 20 gains apply_balance_to_codec hands to equalizer_set_gain_info.
BalanceGains(table, b) ==
    [c \in 1..(2 * EQ_BANDS) |->
        ClampDb(GainDb(table[((c - 1) % EQ_BANDS) + 1])
                + (IF c <= EQ_BANDS THEN LeftAtten(b) ELSE RightAtten(b)))]

\* x >= n for an int x converted to eq_band_t or eq_preset_t.  The
\* enumerations have no negative member, so their type is unsigned, 32 bits
\* wide: a negative int becomes a value of 2^31 or more, above any n here.
EnumAtLeast(x, n) == x < 0 \/ x >= n

\* audio_settings_set_band without the test of the band: the band is taken
\* modulo EQ_BANDS.
SetBandCallWraps(t, band, level, maxc) ==
    /\ nCmds < maxc
    /\ pc[t] = "idle"
    /\ nCmds' = nCmds + 1
    /\ bands' = [bands EXCEPT ![(band % EQ_BANDS) + 1] =
                               Min(level % 256, EQ_MAX)]
    /\ cleanTables' = cleanTables \cup {bands'}
    /\ eqArg' = [eqArg EXCEPT ![t] = band % EQ_BANDS]
    /\ Return(t, "none")
    /\ Goto(t, "band_preset")
    /\ UNCHANGED <<preset, balance, eq_gain, sinkGain, copyIdx, setVars,
                   nvsVars, setFrame>>

\* audio_settings_set_band up to settings.bands[band] = level.  The level is
\* a uint8_t.
SetBandCall(t, band, level, maxc) ==
    /\ nCmds < maxc
    /\ pc[t] = "idle"
    /\ nCmds' = nCmds + 1
    /\ IF EnumAtLeast(band, EQ_BANDS)
       THEN /\ Return(t, "ESP_ERR_INVALID_ARG")
            /\ UNCHANGED <<pc, eqArg, bands, cleanTables>>
       ELSE /\ bands' = [bands EXCEPT ![band + 1] = Min(level % 256, EQ_MAX)]
            /\ cleanTables' = cleanTables \cup {bands'}
            /\ eqArg' = [eqArg EXCEPT ![t] = band]
            /\ Return(t, "none")
            /\ Goto(t, "band_preset")
    /\ UNCHANGED <<preset, balance, eq_gain, sinkGain, copyIdx, setVars,
                   nvsVars, setFrame>>

\* A second half of audio_settings_set_band that leaves the active preset
\* as it was.
SetBandPresetKept(t) ==
    /\ pc[t] = "band_preset"
    /\ SetEqBand(eqArg[t], GainDb(bands[eqArg[t] + 1]))
    /\ Return(t, "ESP_OK")
    /\ Goto(t, "eq_save")
    /\ UNCHANGED <<bands, preset, balance, copyIdx, cleanTables, eqArg, setVars,
                   nvsVars, nCmds, setFrame>>

\* settings.preset = EQ_PRESET_CUSTOM; audio_player_set_eq_band(band,
\* level - 12); return ESP_OK.  The handler goes on to audio_settings_save.
SetBandPreset(t) ==
    /\ pc[t] = "band_preset"
    /\ preset' = EQ_PRESET_CUSTOM
    /\ SetEqBand(eqArg[t], GainDb(bands[eqArg[t] + 1]))
    /\ Return(t, "ESP_OK")
    /\ Goto(t, "eq_save")
    /\ UNCHANGED <<bands, balance, copyIdx, cleanTables, eqArg, setVars,
                   nvsVars, nCmds, setFrame>>

\* audio_settings_apply_preset up to the start of the memcpy.
ApplyPresetCall(t, id, maxc) ==
    /\ nCmds < maxc
    /\ pc[t] = "idle"
    /\ nCmds' = nCmds + 1
    /\ IF EnumAtLeast(id, EQ_PRESET_MAX)
       THEN /\ Return(t, "ESP_ERR_INVALID_ARG")
            /\ UNCHANGED <<pc, eqArg, cleanTables>>
       ELSE /\ cleanTables' = cleanTables \cup {presets[id + 1]}
            /\ eqArg' = [eqArg EXCEPT ![t] = id]
            /\ Return(t, "none")
            /\ Goto(t, "preset_copy")
    /\ UNCHANGED <<bands, preset, balance, eq_gain, sinkGain, copyIdx,
                   setVars, nvsVars, setFrame>>

\* memcpy(settings.bands, p->bands, EQ_BANDS): the bytes are copied in
\* ascending order, some more of them before another task runs.
ApplyPresetCopy(t) ==
    /\ pc[t] = "preset_copy"
    /\ \E j \in (copyIdx + 1)..EQ_BANDS :
         /\ bands' = [i \in 1..EQ_BANDS |->
                         IF copyIdx < i /\ i <= j
                         THEN presets[eqArg[t] + 1][i] ELSE bands[i]]
         /\ copyIdx' = j
         /\ IF j = EQ_BANDS THEN Goto(t, "preset_set") ELSE UNCHANGED pc
    /\ UNCHANGED <<preset, balance, eq_gain, sinkGain, cleanTables, eqArg, ret,
                   setVars, nvsVars, nCmds, setFrame>>

\* settings.preset = preset; return apply_eq_to_codec().
ApplyPresetSet(t) ==
    /\ pc[t] = "preset_set"
    /\ preset' = eqArg[t]
    /\ ApplyEqToCodec(bands)
    /\ copyIdx' = 0
    /\ Return(t, "ESP_OK")
    /\ Goto(t, "eq_save")
    /\ UNCHANGED <<bands, balance, cleanTables, eqArg, setVars, nvsVars, nCmds,
                   setFrame>>

\* audio_settings_set_balance(int8_t): the limit, settings.balance = balance,
\* return apply_balance_to_codec().  Without an equalizer element
\* apply_balance_to_codec returns ESP_ERR_INVALID_STATE before it sets a
\* gain.  The handler calls audio_settings_save whatever was returned.
SetBalanceCall(t, b, maxc) ==
    /\ nCmds < maxc
    /\ pc[t] = "idle"
    /\ nCmds' = nCmds + 1
    /\ balance' = (IF b < 0 - 100 THEN 0 - 100 ELSE IF b > 100 THEN 100 ELSE b)
    /\ IF equalizer = "NULL"
       THEN /\ Return(t, "ESP_ERR_INVALID_STATE")
            /\ UNCHANGED sinkGain
       ELSE /\ Return(t, "ESP_OK")
            /\ sinkGain' = BalanceGains(bands, balance')
    /\ Goto(t, "eq_save")
    /\ UNCHANGED <<bands, preset, eq_gain, copyIdx, cleanTables, eqArg, setVars,
                   nvsVars, setFrame>>

\* audio_settings_save: schedule_save sets settings_dirty and restarts the
\* save timer.
ScheduleSave(t) ==
    /\ pc[t] = "eq_save"
    /\ Goto(t, "idle")
    /\ settings_dirty' = TRUE
    /\ saveArmed' = TRUE
    /\ saveBurstOk' = (saveBurstOk /\ saveArmed)
    /\ eqArg' = [eqArg EXCEPT ![t] = 0]
    /\ UNCHANGED <<settingsVolume, eqVars, nvsVars, ret, nCmds, setFrame>>

\* audio_settings_flush: xTimerStop, then the test of settings_dirty and
\* settings_dirty = false.
FlushCall(t, maxc) ==
    /\ nCmds < maxc
    /\ pc[t] = "idle"
    /\ nCmds' = nCmds + 1
    /\ saveArmed' = FALSE
    /\ saveBurstOk' = FALSE
    /\ settings_dirty' = FALSE
    /\ IF settings_dirty
       THEN /\ Return(t, "none")
            /\ Goto(t, "flush_write")
       ELSE /\ Return(t, "ESP_OK")
            /\ UNCHANGED pc
    /\ UNCHANGED <<settingsVolume, eqVars, nvsVars, eqArg, setFrame>>

\* return audio_settings_save_internal().
FlushWrite(t) ==
    /\ pc[t] = "flush_write"
    /\ nvsVolume' = settingsVolume
    /\ nvsEq' = [bands |-> bands, preset |-> preset, balance |-> balance]
    /\ nSaves' = nSaves + 1
    /\ Return(t, "ESP_OK")
    /\ Goto(t, "idle")
    /\ UNCHANGED <<setVars, eqVars, eqArg, nCmds, setFrame>>

\* audio_settings_load: settings.volume is the stored byte when the key
\* exists, the value of the static initialiser otherwise.
LoadedVolume ==
    IF nvsVolume >= 0 THEN nvsVolume ELSE SETTINGS_VOLUME

\* audio_settings_load: the equaliser keys, each kept at its static initial
\* value when the namespace does not hold it.
LoadedEq ==
    IF nvsEq = NoBlob
    THEN [bands |-> presets[EQ_PRESET_FLAT + 1], preset |-> EQ_PRESET_FLAT,
          balance |-> 0]
    ELSE nvsEq

\* A restart (power cycle or esp_restart) followed by app_main up to the
\* return of audio_player_init: every static variable has its initial
\* value again, audio_settings_init has loaded the settings, and
\* audio_player_init has copied the stored volume to player_status.volume
\* and to the codec, and app_main has registered player_state_handler.
\* Only the NVS survives.  app_main goes on to call
\* audio_player_set_volume before any command handler is registered.
Reboot(t, maxb) ==
    /\ nBoots < maxb
    /\ nBoots' = nBoots + 1
    /\ state' = "Idle"
    /\ source' = "None"
    /\ current_url' = ""
    /\ muted' = FALSE
    /\ chain' = "stopped"
    /\ i2sPaused' = FALSE
    /\ httpUri' = ""
    /\ realFill' = 0
    /\ elemTasks' = FALSE
    /\ evtQueue' = <<>>
    /\ reconnect_in_progress' = FALSE
    /\ prebuffer_counter' = 0
    /\ current_buffer_percent' = 0
    /\ timerActive' = FALSE
    /\ pc' = [x \in Tasks |-> IF x \in RcTasks THEN "none"
                              ELSE IF x = t THEN "boot_volume" ELSE "idle"]
    /\ arg' = [x \in Tasks |-> ""]
    /\ eqArg' = [x \in Tasks |-> 0]
    /\ ret' = [x \in Tasks |-> "none"]
    /\ delivered' = [state |-> "Idle", volume |-> 0, muted |-> FALSE,
                     to |-> {}]
    /\ state_callback' = "player_state_handler"
    /\ registered' = {"player_state_handler"}
    /\ rdStep' = 0
    /\ rdSeen' = StatusFields("Idle", DEFAULT_VOLUME, FALSE)
    /\ rdSnap' = StatusFields("Idle", DEFAULT_VOLUME, FALSE)
    /\ wrote' = [x \in Tasks |-> "none"]
    /\ writeOrder' = <<>>
    /\ stopReturned' = FALSE
    /\ detectedUrl' = ""
    /\ pending_volume' = 0 - 1
    /\ volTimerArmed' = FALSE
    /\ saveArmed' = FALSE
    /\ settings_dirty' = FALSE
    /\ saveBurstOk' = TRUE
    /\ settingsVolume' = LoadedVolume
    /\ bands' = LoadedEq.bands
    /\ preset' = LoadedEq.preset
    /\ balance' = LoadedEq.balance
    /\ eq_gain' = [c \in 1..(2 * EQ_BANDS) |->
                       LoadedEq.bands[((c - 1) % EQ_BANDS) + 1] - 12]
    /\ sinkGain' = [c \in 1..(2 * EQ_BANDS) |-> 0]
    /\ copyIdx' = 0
    /\ cleanTables' = {LoadedEq.bands}
    /\ volume' = LoadedVolume
    /\ hwVolume' = LoadedVolume
    /\ lastVol' = LoadedVolume
    /\ hwWrites' = 0
    /\ nResets' = 0
    /\ burstOk' = TRUE
    /\ UNCHANGED <<nvsVars, stateWriters, guardWriters, cntVars>>

\* audio_player_set_volume(audio_cfg->volume) of app_main, up to the test
\* of player_status.muted.
BootVolume(t) ==
    /\ pc[t] = "boot_volume"
    /\ volume' = ClampVolume(settingsVolume)
    /\ lastVol' = ClampVolume(settingsVolume)
    /\ burstOk' = (burstOk /\ settingsVolume = ClampVolume(settingsVolume))
    /\ arg' = [arg EXCEPT ![t] = ClampVolume(settingsVolume)]
    /\ settingsVolume' = SettingsVolume(ClampVolume(settingsVolume))
    /\ saveArmed' = TRUE
    /\ settings_dirty' = TRUE
    /\ saveBurstOk' = (saveBurstOk /\ saveArmed)
    /\ Goto(t, "vol_check")
    /\ UNCHANGED <<muted, pending_volume, volTimerArmed, hwVolume, hwWrites,
                   nResets, ret, wrote, writeOrder, delivered, nCmds,
                   volFrame>>

\* Volume up / down of the MQTT handler and of the board's buttons:
\* audio_player_set_volume(current volume + 5) and (current volume - 5).
VolUp(t, maxc) == VolCall(t, volume + 5, maxc)

VolDown(t, maxc) == VolCall(t, volume - 5, maxc)

\* ------------------------------------------- the stage chain and the board
Emit(k, maxe) ==
    /\ nEvents < maxe
    /\ nEvents' = nEvents + 1
    /\ evtQueue' = Append(evtQueue, k)

envFrame == <<state, wrote, writeOrder, stateWriters, urlVars,
              reconnect_in_progress, monVars, pc, arg, ret, delivered,
              histVars, nCmds, volVars>>

\* The decoder writes into the I2S input ring buffer.
ChainFill ==
    /\ chain = "running"
    /\ \E l \in FillLevels : l > realFill /\ realFill' = l
    /\ UNCHANGED <<chain, i2sPaused, httpUri, elemTasks, evtQueue, nEvents,
                   envFrame>>

\* The running I2S writer consumes from its input ring buffer.
ChainDrain ==
    /\ chain # "stopped"
    /\ ~i2sPaused
    /\ \E l \in FillLevels : l < realFill /\ realFill' = l
    /\ UNCHANGED <<chain, i2sPaused, httpUri, elemTasks, evtQueue, nEvents,
                   envFrame>>

\* The HTTP stream ends: http_stream reports FINISHED.
HttpFinish(maxe) ==
    /\ chain = "running"
    /\ Emit("http_finished", maxe)
    /\ chain' = "draining"
    /\ UNCHANGED <<i2sPaused, httpUri, realFill, elemTasks, envFrame>>

\* The I2S writer has played what was left: i2s_stream reports FINISHED.
I2sFinish(maxe) ==
    /\ chain = "draining"
    /\ ~i2sPaused
    /\ Emit("i2s_finished", maxe)
    /\ chain' = "stopped"
    /\ realFill' = 0
    /\ UNCHANGED <<i2sPaused, httpUri, elemTasks, envFrame>>

\* An element reports an error status.
ChainError(maxe) ==
    /\ chain # "stopped"
    /\ Emit("error", maxe)
    /\ UNCHANGED <<pipeVars, envFrame>>

\* The Play/Pause touch pad is tapped.
ButtonPress(maxe) ==
    /\ Emit("btn_play", maxe)
    /\ UNCHANGED <<pipeVars, envFrame>>

\* ---------------------------------------------------------- specification
\* The commands of the callers in C, at most maxc of them.
CommandStep(C, U, maxc) ==
    \E t \in C :
        \/ \E u \in U \cup {""} : PlayCall(t, u, maxc)
        \/ StopCall(t, maxc)
        \/ PauseCall(t, maxc)
        \/ ResumeCall(t, maxc)

\* The rest of a command that has been entered.
CallerStep ==
    \E t \in Callers :
        \/ StopSetState(t)
        \/ StopNotify(t)
        \/ PauseResumeNotify(t)

PlayStep ==
    \E t \in Callers \cup RcTasks :
        \/ PlaySetUri(t)
        \/ PlaySetUrl(t)
        \/ PlayRun(t)
        \/ PlayNotify(t)
        \/ PlayResetCounter(t)
        \/ PlayResetPercent(t)
        \/ PlayReturn(t)

\* The event task on the FINISHED reports of the chain.
FinishedStep ==
    \/ EvtHttpFinished
    \/ EvtI2sFinished

\* The event task on error reports and on the Play/Pause button.
ErrorButtonStep ==
    \/ EvtError
    \/ EvtNotify
    \/ EvtButtonPlay
    \/ PauseResumeNotify("event")

ReconnectStep ==
    \E t \in RcTasks : RcPlay(t) \/ RcClear(t)

TimerStep ==
    \/ PrebufferTick
    \/ PrebufferResume
    \/ PrebufferSetState
    \/ PrebufferNotify

FillStep ==
    \/ ChainFill
    \/ ChainDrain

\* The tasks of the engine other than the event task.
TaskStep ==
    \/ CallerStep
    \/ PlayStep
    \/ ReconnectStep
    \/ TimerStep

\* The whole engine: two command callers, every event of the chain and of
\* the board.
Next ==
    \/ CommandStep(Callers, SoloUrls, MaxCmds)
    \/ HttpFinish(MaxEvents)
    \/ I2sFinish(MaxEvents)
    \/ ChainError(MaxEvents)
    \/ ButtonPress(MaxEvents)
    \/ FinishedStep
    \/ ErrorButtonStep
    \/ TaskStep

Spec == Init /\ [][Next]_vars

\* The reconnect supervisor: one command caller, a chain that ends.
NextRecon ==
    \/ CommandStep(SoloCallers, SoloUrls, ReconCmds)
    \/ HttpFinish(ReconEvents)
    \/ I2sFinish(ReconEvents)
    \/ FinishedStep
    \/ TaskStep

SpecRecon == Init /\ [][NextRecon]_vars

\* Everything reconnect task t does, from its creation to vTaskDelete.
RcTaskStep(t) ==
    \/ RcPlay(t)
    \/ PlaySetUri(t)
    \/ PlaySetUrl(t)
    \/ PlayRun(t)
    \/ PlayNotify(t)
    \/ PlayResetCounter(t)
    \/ PlayResetPercent(t)
    \/ PlayReturn(t)
    \/ RcClear(t)

\* The reconnect supervisor under play and stop commands.  A reconnect task
\* is a ready FreeRTOS task: its delay ends and the scheduler runs it, which
\* is the weak fairness of its steps.
NextGuard ==
    \/ \E u \in SoloUrls \cup {""} : PlayCall("http", u, GuardCmds)
    \/ StopCall("http", GuardCmds)
    \/ StopSetState("http")
    \/ StopNotify("http")
    \/ HttpFinish(GuardEvents)
    \/ I2sFinish(GuardEvents)
    \/ FinishedStep
    \/ PlayStep
    \/ ReconnectStep
    \/ TimerStep

SpecGuard ==
    /\ Init
    /\ [][NextGuard]_vars
    /\ \A t \in RcTasks : WF_vars(RcTaskStep(t))

\* The reconnect supervisor with a caller that changes station.
NextUrl ==
    \/ CommandStep(SoloCallers, Urls, ReconCmds)
    \/ HttpFinish(ReconEvents)
    \/ I2sFinish(ReconEvents)
    \/ FinishedStep
    \/ TaskStep

SpecUrl == Init /\ [][NextUrl]_vars

\* The buffer monitor: one command caller, a chain that fills and drains.
NextMon ==
    \/ CommandStep(SoloCallers, SoloUrls, MonCmds)
    \/ FillStep
    \/ CallerStep
    \/ PlayStep
    \/ TimerStep

SpecMon == Init /\ [][NextMon]_vars

\* What command caller t does between the entry of play_url or stop and
\* their return.
CallerTaskStep(t) ==
    \/ PlaySetUri(t)
    \/ PlaySetUrl(t)
    \/ PlayRun(t)
    \/ PlayNotify(t)
    \/ PlayResetCounter(t)
    \/ PlayResetPercent(t)
    \/ PlayReturn(t)
    \/ StopSetState(t)
    \/ StopNotify(t)

\* The reconnect supervisor with every task of the engine scheduled: the
\* event task takes each report, the timer service task runs each expired
\* callback, a caller inside play_url or stop goes on to their return, and
\* a reconnect task runs to its end.  When and whether commands and reports
\* arrive stays open.
SpecLive ==
    /\ Init
    /\ [][NextGuard]_vars
    /\ \A t \in RcTasks : WF_vars(RcTaskStep(t))
    /\ WF_vars(CallerTaskStep("http"))
    /\ WF_vars(FinishedStep)
    /\ WF_vars(TimerStep)

\* Error reports next to dropped streams: one play command, the FINISHED and
\* error reports of the chain, the event task and the reconnect task.
NextErr ==
    \/ \E u \in SoloUrls : PlayCall("http", u, ErrCmds)
    \/ PlayStep
    \/ HttpFinish(ErrEvents)
    \/ ChainError(ErrEvents)
    \/ EvtHttpFinished
    \/ EvtError
    \/ EvtNotify
    \/ ReconnectStep
    \/ TimerStep

SpecErr == Init /\ [][NextErr]_vars

\* A subscriber that may never return.  notify_state_change calls the
\* callback in the task that changed the state, so the step that ends a
\* notification is the callback's return and carries no fairness.  The event
\* task is a ready FreeRTOS task whenever its queue holds a report, which is
\* the weak fairness of the steps that take a report.
NextSlow ==
    \/ \E u \in SoloUrls : PlayCall("http", u, SlowCmds)
    \/ PlayStep
    \/ ChainError(SlowEvents)
    \/ EvtError
    \/ EvtNotify
    \/ TimerStep

SpecSlow ==
    /\ Init
    /\ [][NextSlow]_vars
    /\ WF_vars(EvtError)

\* The subscribers: the buffer monitor's specification and the registration
\* of further callbacks.
NextCb ==
    \/ NextMon
    \/ \E cb \in Subscribers : RegisterCallback(cb, MaxSubscribers)

SpecCb == Init /\ [][NextCb]_vars

\* The volume path: one caller of set_volume, one caller of mute, the timer
\* service task.
NextVol ==
    \/ \E v \in VolInputs : VolCall("http", v, VolCmds)
    \/ \E m \in BOOLEAN : MuteCall("mqtt", m, VolCmds)
    \/ VolCheck("http")
    \/ VolReset("http")
    \/ \E t \in Callers : VolNotify(t)
    \/ MuteWrite("mqtt")
    \/ VolTimerFire
    \/ VolTimerWrite
    \/ VolTimerClear

SpecVol == Init /\ [][NextVol]_vars

\* A reader of the status next to the volume path: api_status_handler in the
\* HTTP server task, set_volume and mute called by the MQTT task, the timer
\* service task.
NextSnap ==
    \/ \E v \in VolInputs : VolCall("mqtt", v, SnapCmds)
    \/ \E m \in BOOLEAN : MuteCall("mqtt", m, SnapCmds)
    \/ VolCheck("mqtt")
    \/ VolReset("mqtt")
    \/ VolNotify("mqtt")
    \/ MuteWrite("mqtt")
    \/ VolTimerFire
    \/ VolTimerWrite
    \/ VolTimerClear
    \/ StatusGet
    \/ StatusRead

SpecSnap == Init /\ [][NextSnap]_vars

\* The settings: one caller of the equaliser, balance and flush functions
\* (the HTTP server task) and the timer service task with the debounced
\* save.
NextEq ==
    \/ \E b \in BandInputs, l \in LevelInputs : SetBandCall("http", b, l, EqCmds)
    \/ SetBandPreset("http")
    \/ \E id \in PresetInputs : ApplyPresetCall("http", id, EqCmds)
    \/ ApplyPresetCopy("http")
    \/ ApplyPresetSet("http")
    \/ \E b \in BalanceInputs : SetBalanceCall("http", b, EqCmds)
    \/ ScheduleSave("http")
    \/ FlushCall("http", EqCmds)
    \/ FlushWrite("http")
    \/ SaveTimerFire
    \/ SaveTimerWrite
    \/ SaveTimerClear

SpecEq == Init /\ [][NextEq]_vars

\* The argument checks of the equalizer settings: set_band and apply_preset
\* with numbers inside and outside their ranges, each followed by the save
\* request of its web handler.
NextArg ==
    \/ \E b \in ArgBands, l \in LevelInputs : SetBandCall("http", b, l, ArgCmds)
    \/ SetBandPreset("http")
    \/ \E id \in ArgPresets : ApplyPresetCall("http", id, ArgCmds)
    \/ ApplyPresetCopy("http")
    \/ ApplyPresetSet("http")
    \/ ScheduleSave("http")

SpecArg == Init /\ [][NextArg]_vars

\* The debounced save alone: the settings changes of the HTTP server task
\* and the timer service task, no flush.
NextSave ==
    \/ \E b \in BandInputs, l \in LevelInputs : SetBandCall("http", b, l, EqCmds)
    \/ SetBandPreset("http")
    \/ \E id \in PresetInputs : ApplyPresetCall("http", id, EqCmds)
    \/ ApplyPresetCopy("http")
    \/ ApplyPresetSet("http")
    \/ \E b \in BalanceInputs : SetBalanceCall("http", b, EqCmds)
    \/ ScheduleSave("http")
    \/ SaveTimerFire
    \/ SaveTimerWrite
    \/ SaveTimerClear

SpecSave == Init /\ [][NextSave]_vars

\* The debounced save with its tasks scheduled: a started save timer expires
\* and the timer service task runs its callback to the end, and a settings
\* call that has begun runs to its return.  Whether further changes are made
\* stays open.
SpecSaveLive ==
    /\ Init
    /\ [][NextSave]_vars
    /\ WF_vars(SaveTimerFire \/ SaveTimerWrite \/ SaveTimerClear)
    /\ WF_vars(SetBandPreset("http") \/ ApplyPresetCopy("http")
                 \/ ApplyPresetSet("http") \/ ScheduleSave("http"))

\* The volume across restarts: one caller of set_volume and of the volume
\* steps, the timer service task with the debounced save, and restarts.
NextBoot ==
    \/ \E v \in BootInputs : VolCall("http", v, BootCmds)
    \/ VolUp("http", BootCmds)
    \/ VolDown("http", BootCmds)
    \/ Reboot("http", MaxBoots)
    \/ BootVolume("http")
    \/ VolCheck("http")
    \/ VolReset("http")
    \/ VolNotify("http")
    \/ VolTimerFire
    \/ VolTimerWrite
    \/ VolTimerClear
    \/ SaveTimerFire
    \/ SaveTimerWrite
    \/ SaveTimerClear

SpecBoot == Init /\ [][NextBoot]_vars

\* ================================================================= claims
\* No set_volume call in progress, volume_timer stopped, its callback done.
VolQuiescent ==
    /\ pc["http"] = "idle"
    /\ ~volTimerArmed
    /\ pc["timer"] = "idle"

RcCreated == {r \in RcTasks : pc[r] = "none" /\ pc'[r] # "none"}

\* The event task handles a FINISHED report.
FinishedHandled == EvtHttpFinished \/ EvtI2sFinished

\* C2: while Playing with an HTTP source and a non-empty url, a FINISHED
\* report handled with the guard clear creates exactly one reconnect task and
\* sets the guard; a FINISHED report handled while the guard is set creates
\* none.
C2_OneRecoveryPerGuard ==
    [][FinishedHandled =>
          /\ ReconnectWantedNoGuard /\ ~reconnect_in_progress =>
                 (Cardinality(RcCreated) = 1 /\ reconnect_in_progress')
          /\ reconnect_in_progress => RcCreated = {}]_vars

\* One reconnect task has been created, the guard is set, and a further
\* FINISHED report waits in the queue of the event task.
C2_Witness ==
    /\ reconnect_in_progress
    /\ pc["rc1"] = "rc_start"
    /\ pc["rc2"] = "none"
    /\ pc["event"] = "idle"
    /\ evtQueue = <<"i2s_finished">>
    /\ ReconnectWantedNoGuard

\* A stop() has torn the chain down: the caller is past
\* audio_pipeline_wait_for_stop with ESP_OK, or stop() has returned ESP_OK
\* and no pipeline has been run since.
StopTornDown ==
    \/ stopReturned
    \/ \E t \in Callers : pc[t] \in {"stop_setstate", "stop_notify"}

\* C3: once stop() has torn the chain down, no FINISHED report of that
\* chain is taken for a dropped stream, whether it was queued before the stop
\* or during it: handling one creates no reconnect task and leaves the guard
\* alone.
C3_NoStaleRecoveryAfterStop ==
    [][(StopTornDown /\ FinishedHandled) =>
          (RcCreated = {} /\ reconnect_in_progress' = reconnect_in_progress)
      ]_vars

\* C4: a pipeline run in play_url succeeds only on a chain that is fully
\* stopped, whichever tasks run play_url at the same time.
C4_RunOnlyWhenStopped ==
    [][\A t \in Tasks :
          (pc[t] = "play_run" /\ pc'[t] = "play_notify") => chain = "stopped"
      ]_vars

\* C5: player_status.state is written by tasks of one kind only, and so is
\* reconnect_in_progress.
C5_SingleWriter ==
    /\ Cardinality(stateWriters) <= 1
    /\ Cardinality(guardWriters) <= 1

\* Task t delivers the notification of the state it wrote.
NotifiesWrite(t) == wrote[t] # "none" /\ wrote'[t] = "none"

\* C6: notifications are delivered in the order of the state writes, and
\* each one reports the state its own write stored.
C6_NotifyInOrder ==
    [][\A t \in Tasks :
          NotifiesWrite(t) =>
              (Head(writeOrder) = t /\ delivered'.state = wrote[t])
      ]_vars

\* C7: a tick in Buffering at which the real fill level has reached 100
\* starts the transition to Playing, as does one at which the counter has
\* reached PREBUFFER_TICKS.
C7_GateIsDisjunction ==
    [][(PrebufferTick /\ state = "Buffering"
            /\ (get_real_buffer_level >= 100
                   \/ prebuffer_counter + 1 >= PREBUFFER_TICKS)) =>
          pc'["timer"] = "tick_resume"
      ]_vars

\* No task is inside audio_player_play_url.
NoPlayInProgress ==
    \A t \in Tasks :
        pc[t] \notin {"play_seturi", "play_seturl", "play_run", "play_notify",
                      "play_resetcnt", "play_resetpct", "play_return"}

\* C8: within one Buffering episode (play_url has returned, the state is
\* still Buffering) no tick lowers the reported buffer level.
C8_LevelMonotonic ==
    [][(PrebufferTick /\ state = "Buffering" /\ NoPlayInProgress) =>
          current_buffer_percent' >= current_buffer_percent
      ]_vars

\* C9: when play_url returns ESP_OK the reported percentage and the tick
\* counter are both 0.
C9_ResetAtReturn ==
    [][\A t \in Callers :
          (pc[t] = "play_return" /\ pc'[t] = "idle") =>
              (current_buffer_percent' = 0 /\ prebuffer_counter' = 0)
      ]_vars

\* C10: the state leaves Error only by the set_state(STOPPED) of stop().
C10_ErrorSticky ==
    [][state = "Error" =>
          \/ state' = "Error"
          \/ \E t \in Callers :
                 pc[t] = "stop_setstate" /\ state' = "Stopped"
      ]_vars

\* C11: the reconnect task hands play_url the url that was current when the
\* termination was detected: the uri it sets on http_stream is that url,
\* whatever has been written to current_url in the meantime.
C11_ResubmitsDetectedUrl ==
    [][\A t \in RcTasks :
          (pc[t] = "play_seturi" /\ pc'[t] = "play_seturl") =>
              httpUri' = detectedUrl
      ]_vars

\* C12: whenever the guard is set it is eventually cleared, whether the
\* play_url of the reconnect task succeeded or failed.
C12_GuardEventuallyCleared ==
    reconnect_in_progress ~> ~reconnect_in_progress

\* A reconnect task has run to its end and the guard is clear again.
C12_Witness ==
    /\ ~reconnect_in_progress
    /\ "reconnect" \in guardWriters
    /\ \A t \in RcTasks : pc[t] = "none"

\* C13: a reconnect task whose delay ends after stop() has returned, with
\* the state Stopped, does not enter play_url.
C13_NoResubmitAfterStop ==
    [][\A t \in RcTasks :
          (pc[t] = "rc_start" /\ stopReturned /\ state = "Stopped") =>
              pc'[t] # "play_seturi"
      ]_vars

\* C14: with no real fill, play_url returns ESP_OK in state Buffering with
\* level 0, every tick that finds the counter below 29 leaves the state
\* Buffering, and the tick that starts the transition to Playing is the
\* 30th: it finds the counter at 29.
C14_PlayingOnThirtiethTick ==
    [][/\ \A t \in Callers :
             (pc[t] = "play_return" /\ pc'[t] = "idle") =>
                 (state' = "Buffering" /\ current_buffer_percent' = 0)
       /\ (PrebufferTick /\ state = "Buffering"
              /\ get_real_buffer_level = 0) =>
             (pc'["timer"] = "tick_resume" <=>
                  prebuffer_counter + 1 = PREBUFFER_TICKS)
      ]_vars

PauseEntered(t) ==
    /\ pc[t] = "idle"
    /\ nCmds' = nCmds + 1
    /\ PauseBody(t)

ResumeEntered(t) ==
    /\ pc[t] = "idle"
    /\ nCmds' = nCmds + 1
    /\ ResumeBody(t)

\* C16: pause() while Paused, resume() while Playing and pause() while Idle
\* are no-ops: each returns success and leaves the state as it was.
C16_PauseResumeNoOps ==
    [][\A t \in SoloCallers :
         /\ (PauseEntered(t) /\ state \in {"Paused", "Idle"})
              => (ret'[t] = "ESP_OK" /\ state' = state)
         /\ (ResumeEntered(t) /\ state = "Playing")
              => (ret'[t] = "ESP_OK" /\ state' = state)]_vars


\* C17: player_status.volume lies within [0, 100] in every reachable state:
\* after any set_volume call, after a restart that loads the stored volume,
\* and after a volume step of 5 at either end of the range.
C17_VolumeInRange ==
    volume \in MIN_VOLUME..MAX_VOLUME

\* After a restart that loaded the stored top of the range, a further call
\* asked for more than the range allows.
C17_Witness ==
    /\ nBoots = 1
    /\ nvsVolume = MAX_VOLUME
    /\ volume = MAX_VOLUME
    /\ pc["http"] = "vol_check"
    /\ nCmds = BootCmds
    /\ ~burstOk


\* A command caller enters an API function: the step that counts a command.
CallEntered(t) ==
    /\ pc[t] = "idle"
    /\ nCmds' = nCmds + 1

\* C18: audio_player_play_url with an empty url returns ESP_ERR_INVALID_ARG
\* within the call and changes nothing: a call goes past the argument check
\* only with a non-empty url, and the call that returns the error leaves
\* the state, the source kind, the current url, the chain and the buffer
\* percentage as they were.
C18_EmptyUrlRejected ==
    [][\A t \in SoloCallers :
         /\ (CallEntered(t) /\ pc'[t] = "play_seturi") => arg'[t] # ""
         /\ (CallEntered(t) /\ ret'[t] = "ESP_ERR_INVALID_ARG")
              => /\ pc'[t] = "idle"
                 /\ UNCHANGED <<state, source, current_url, chain,
                                current_buffer_percent>>]_vars

\* The error was returned to a caller while a stream was playing.
C18_Witness ==
    /\ ret["http"] = "ESP_ERR_INVALID_ARG"
    /\ pc["http"] = "idle"
    /\ state = "Playing"
    /\ chain = "running"
    /\ current_url = "u1"
    /\ current_buffer_percent = 100


\* The caller is inside audio_player_set_volume and has not yet notified the
\* subscriber.
InSetVolume(t) ==
    pc[t] \in {"vol_check", "vol_reset", "vol_notify"}

\* C19: every set_volume call notifies the subscriber of the clamped value
\* within the call, before the codec is written with that value: the
\* notification of a call delivers the call's value, and the timer callback
\* never writes the value of a call that has not yet notified.
C19_NotifyBeforeHardwareWrite ==
    [][\A t \in SoloCallers :
         /\ (pc[t] = "vol_notify" /\ pc'[t] = "idle")
              => delivered'.volume = arg[t]
         /\ (pc["timer"] = "vt_write" /\ pc'["timer"] = "vt_clear"
               /\ InSetVolume(t))
              => hwVolume' # arg[t]]_vars


Max(a, b) == IF a > b THEN a ELSE b

\* The expiry of the prebuffer timer that finds the state Buffering.
BufferingTick ==
    /\ timerActive
    /\ pc["timer"] = "idle"
    /\ state = "Buffering"
    /\ prebuffer_counter' = prebuffer_counter + 1

\* C20: at every prebuffer tick while Buffering the reported percentage is
\* min(100, max(real_fill, tick_ramp)), with tick_ramp = counter * 100 / 30
\* for the counter the tick has just incremented.
C20_PercentIsMaxOfFillAndRamp ==
    [][BufferingTick =>
         current_buffer_percent' =
             Min(100, Max(get_real_buffer_level,
                          (prebuffer_counter' * 100) \div PREBUFFER_TICKS))]_vars


\* C21: audio_settings_apply_preset overwrites the ten bands atomically: the
\* band table a concurrent reader takes, here the table the debounced save
\* writes to the NVS, is a table settings.bands held before a call or was
\* given by a whole call, never a mixture of the two.
C21_NoMixedTable ==
    nvsEq # NoBlob => nvsEq.bands \in cleanTables


\* C22: audio_settings_set_band(band, level) with band in [0, 9] changes
\* only the addressed band, to the level limited to [0, 24], and marks the
\* active preset as custom; the other nine bands, the balance and the
\* volume are as before.
C22_SetBandFrame ==
    [][\A t \in SoloCallers :
         /\ (pc[t] = "idle" /\ pc'[t] = "band_preset")
              => /\ eqArg'[t] \in 0..(EQ_BANDS - 1)
                 /\ \A i \in 1..EQ_BANDS :
                        i # eqArg'[t] + 1 => bands'[i] = bands[i]
                 /\ \E l \in LevelInputs :
                        bands'[eqArg'[t] + 1] = Min(Max(l, 0), EQ_MAX)
                 /\ UNCHANGED <<balance, settingsVolume, volume>>
         /\ (pc[t] = "band_preset" /\ pc'[t] # "band_preset")
              => /\ preset' = EQ_PRESET_CUSTOM
                 /\ ret'[t] = "ESP_OK"
                 /\ UNCHANGED <<bands, balance, settingsVolume, volume>>]_vars

\* Band 0 was set on top of the ROCK preset.
C22_Witness ==
    /\ pc["http"] = "eq_save"
    /\ ret["http"] = "ESP_OK"
    /\ preset = EQ_PRESET_CUSTOM
    /\ bands[1] = 20
    /\ \A i \in 2..EQ_BANDS : bands[i] = presets[2][i]


\* The gain of a cell of the equalizer that corresponds to the stored table.
StoredGain(c) == ClampDb(GainDb(bands'[((c - 1) % EQ_BANDS) + 1]))

\* C23: after every successful set_eq_band or apply_preset the gain applied
\* to the equalizer equals the stored level converted to dB (level - 12,
\* limited to [-13, +13]) for the changed bands on both channels.
C23_SinkMatchesStoredBands ==
    [][\A t \in SoloCallers :
         /\ (pc[t] = "band_preset" /\ pc'[t] = "eq_save"
               /\ ret'[t] = "ESP_OK")
              => \A c \in {eqArg[t] + 1, eqArg[t] + 1 + EQ_BANDS} :
                     sinkGain'[c] = StoredGain(c)
         /\ (pc[t] = "preset_set" /\ pc'[t] = "eq_save"
               /\ ret'[t] = "ESP_OK")
              => \A c \in 1..(2 * EQ_BANDS) :
                     sinkGain'[c] = StoredGain(c)]_vars


\* The attenuation in dB the claim gives a cell for balance b: the channel
\* opposite to the balance direction loses |b| * 12 / 100, truncated.
ClaimedAtten(c, b) ==
    IF (b < 0 /\ c > EQ_BANDS) \/ (b > 0 /\ c <= EQ_BANDS)
    THEN 0 - (((IF b < 0 THEN 0 - b ELSE b) * 12) \div 100)
    ELSE 0

\* C24: set_balance(b) attenuates only the channel opposite to the balance
\* direction, by b * 12 / 100 dB truncated toward zero, and each of the 20
\* gains applied to the equalizer equals the stored band gain plus its
\* channel's attenuation, limited to [-13, +13].
C24_BalanceGainsApplied ==
    [][\A t \in SoloCallers :
         (pc[t] = "idle" /\ pc'[t] = "eq_save")
           => \A c \in 1..(2 * EQ_BANDS) :
                  sinkGain'[c] =
                      ClampDb(GainDb(bands[((c - 1) % EQ_BANDS) + 1])
                              + ClaimedAtten(c, balance'))]_vars


\* No settings call in progress, the save timer stopped, its callback done.
SaveQuiescent ==
    /\ pc["http"] = "idle"
    /\ ~saveArmed
    /\ pc["timer"] = "idle"

\* The NVS holds the settings as they are in memory.
Persisted ==
    /\ nvsVolume = settingsVolume
    /\ nvsEq = [bands |-> bands, preset |-> preset, balance |-> balance]

\* C25: a burst of settings changes, each scheduled while the save timer
\* restarted by the previous one is still running, produces exactly one
\* flash write, made after the last change and holding the final values:
\* while the changes so far are one burst there is at most one write, and
\* once the timer and its callback are done the NVS holds the settings.
C25_OneSavePerBurst ==
    /\ saveBurstOk => nSaves <= 1
    /\ SaveQuiescent => (Persisted /\ (saveBurstOk => nSaves = 1))


\* audio_settings_flush returns: after its write, or at once when it found
\* settings_dirty clear.
FlushReturns(t) ==
    \/ pc[t] = "flush_write" /\ pc'[t] = "idle"
    \/ /\ pc[t] = "idle" /\ pc'[t] = "idle"
       /\ nCmds' = nCmds + 1
       /\ ret'[t] = "ESP_OK"

\* C26: when audio_settings_flush returns, settings_dirty is clear, the NVS
\* holds the settings as they are in memory, and the save timer that was
\* pending makes no further write: it is stopped and its callback is not
\* about to write.
C26_FlushIsFinal ==
    [][\A t \in SoloCallers :
         FlushReturns(t)
           => /\ settings_dirty' = FALSE
              /\ Persisted'
              /\ ~saveArmed'
              /\ pc'["timer"] # "st_write"]_vars


\* A task returns from notify_state_change.
Notifies(t) ==
    /\ pc[t] \in {"play_notify", "stop_notify", "pr_notify", "evt_notify",
                  "tick_notify", "vol_notify"}
    /\ pc'[t] # pc[t]

\* C27: every status change is delivered to all subscribers registered
\* through audio_player_register_callback: each notification invokes every
\* callback that has been registered.
C27_AllSubscribersNotified ==
    [][\A t \in Tasks : Notifies(t) => delivered'.to = registered]_vars


\* C28: a subscriber callback that is slow or never returns does not block
\* the state transitions: a stage event reported after the callback was
\* entered is still taken from the queue and processed.
C28_EventsProcessedDespiteSubscriber ==
    (evtQueue # <<>>) ~> (evtQueue = <<>>)


\* stop() has returned ESP_OK and no play has been started since.
StoppedSince ==
    /\ stopReturned
    /\ NoPlayInProgress

\* C29: on stop the buffer percentage and the tick counter reset to 0: a
\* monitor tick that runs once stop() has returned sets both to 0, and both
\* stay 0 until the next play.
C29_StopResetsMonitor ==
    [][/\ (StoppedSince /\ PrebufferTick)
            => (prebuffer_counter' = 0 /\ current_buffer_percent' = 0)
       /\ (StoppedSince /\ StoppedSince'
             /\ prebuffer_counter = 0 /\ current_buffer_percent = 0)
            => (prebuffer_counter' = 0 /\ current_buffer_percent' = 0)]_vars


\* The event task takes an error report from its queue.
ErrorTaken ==
    /\ pc["event"] = "idle"
    /\ evtQueue # <<>>
    /\ Head(evtQueue) = "error"
    /\ evtQueue' = Tail(evtQueue)

\* The event task ends the notification of the Error it wrote.
ErrorNotified ==
    /\ pc["event"] = "evt_notify"
    /\ wrote["event"] = "Error"
    /\ pc'["event"] = "idle"

\* C30: whenever the event task takes an error status of any stage, the
\* state becomes Error and the task goes on to notify; that notification
\* invokes the registered subscriber with the status as it then is; and the
\* error schedules no recovery: reconnect_in_progress keeps its value and no
\* reconnect task is created.
C30_ErrorSetsErrorNoRecovery ==
    [][/\ ErrorTaken =>
            /\ state' = "Error"
            /\ pc'["event"] = "evt_notify"
            /\ reconnect_in_progress' = reconnect_in_progress
            /\ \A r \in RcTasks : pc'[r] = pc[r]
       /\ (ErrorNotified /\ state_callback # "NULL") =>
            /\ state_callback \in delivered'.to
            /\ delivered'.state = state]_vars

\* An error of an HTTP stream that was Playing has been handled and
\* delivered, and no recovery is under way.
C30_Witness ==
    /\ state = "Error"
    /\ delivered.state = "Error"
    /\ pc["event"] = "idle"
    /\ source = "HTTP"
    /\ current_url # ""
    /\ prebuffer_counter = PREBUFFER_TICKS
    /\ ~reconnect_in_progress
    /\ \A r \in RcTasks : pc[r] = "none"


\* Task t comes back from a settings call with InvalidArgument.
RejectedCall(t) ==
    /\ pc'[t] = "idle"
    /\ ret'[t] = "ESP_ERR_INVALID_ARG"

\* C31: audio_settings_set_band with a band outside [0, 9] and
\* audio_settings_apply_preset with an id outside the preset table return
\* ESP_ERR_INVALID_ARG and leave the stored bands and the active preset as
\* they were.
C31_BadIndexRejected ==
    [][\A t \in SoloCallers :
         /\ \A b \in ArgBands \ (0..(EQ_BANDS - 1)), l \in LevelInputs :
                SetBandCall(t, b, l, ArgCmds)
                  => (RejectedCall(t) /\ UNCHANGED <<bands, preset>>)
         /\ \A id \in ArgPresets \ (0..(EQ_PRESET_MAX - 1)) :
                ApplyPresetCall(t, id, ArgCmds)
                  => (RejectedCall(t) /\ UNCHANGED <<bands, preset>>)]_vars

\* A call was rejected on top of a band set to 20 in the flat table.
C31_Witness ==
    /\ pc["http"] = "idle"
    /\ ret["http"] = "ESP_ERR_INVALID_ARG"
    /\ nCmds = ArgCmds
    /\ preset = EQ_PRESET_CUSTOM
    /\ bands[EQ_BANDS] = 20


\* C32: the status a get_status() caller reads is an immutable snapshot:
\* when api_status_handler has read the fields, each of them is what it was
\* when audio_player_get_status returned, whatever set_volume or mute did in
\* the meantime.
C32_ReaderSeesSnapshot ==
    rdStep = 0 => rdSeen = rdSnap


\* The I2S writer is taking samples from the ring buffer to the codec.
OutputRunning ==
    /\ chain # "stopped"
    /\ ~i2sPaused

\* C33: while the state is Buffering the output stage is held, and it is
\* released only when the state becomes Playing: the output stage is never
\* running while the state is Buffering.
C33_OutputHeldWhileBuffering ==
    state = "Buffering" => ~OutputRunning


\* C34: the state becomes Playing only from Buffering through the readiness
\* gate of the buffer monitor or from Paused through resume(): a step that
\* makes the state Playing starts in Buffering and is the monitor's
\* set_state, or starts in Paused and is not the monitor's.
C34_PlayingOnlyFromGateOrPaused ==
    [][(state # "Playing" /\ state' = "Playing") =>
          \/ state = "Buffering" /\ pc["timer"] = "tick_setstate"
                                 /\ pc'["timer"] = "tick_notify"
          \/ state = "Paused" /\ pc'["timer"] = pc["timer"]]_vars


\* The engine reports Playing for a network source while no chain exists and
\* no recovery is under way.
SilentPlaying ==
    /\ state = "Playing"
    /\ source = "HTTP"
    /\ chain = "stopped"
    /\ ~reconnect_in_progress
    /\ \A r \in RcTasks : pc[r] = "none"
    /\ evtQueue = <<>>

\* C35: whenever the state is Playing with a network source, a chain is
\* running or a recovery is in flight: the engine is never left reporting
\* Playing indefinitely with no chain, no pending report and no recovery.
C35_NeverSilentPlaying ==
    SilentPlaying ~> ~SilentPlaying


\* C36: while player_status.muted is true and no mute call is under way,
\* the volume register of the codec is 0: neither a set_volume call nor a
\* debounced write left pending from before mute(true) raises it.
C36_MutedSinkSilent ==
    (muted /\ \A t \in Callers : pc[t] # "mute_write") => hwVolume = 0


\* C37: player_status.current_url changes only when a play command is
\* accepted: as long as no pipeline run has succeeded and no play_url call
\* is under way, current_url is the empty string it was initialised to.
C37_UrlKeptOnFailedPlay ==
    (~elemTasks /\ NoPlayInProgress) => current_url = ""


\* C38: whenever no play command is in progress, player_status.current_url
\* equals the uri configured on http_stream, also after play commands with
\* different urls issued from different tasks have overlapped.
C38_UrlMatchesFetcher ==
    NoPlayInProgress => current_url = httpUri


\* C39: every accepted settings change is eventually written to flash: from
\* some point on, when the changes have ceased, the NVS holds the settings
\* as they are in memory, also when a change arrived while the debounced
\* save was writing.
C39_ChangesEventuallyPersisted ==
    <>[]Persisted


\* C40: while the state is Playing a buffer-monitor tick changes only the
\* buffer percentage and the tick counter, also when the real fill is below
\* the 30% low-water mark: the state, the chain, the sink and every task's
\* position are left as they were.
C40_PlayingTickFrame ==
    [][(PrebufferTick /\ state = "Playing") =>
          /\ current_buffer_percent' = get_real_buffer_level
          /\ prebuffer_counter' = PREBUFFER_TICKS
          /\ UNCHANGED <<state, urlVars, pipeVars, pc, evtQueue,
                         reconnect_in_progress, volume, muted, hwVolume,
                         delivered>>]_vars

\* A tick has reported a fill below the low-water mark while Playing, and
\* the chain and the output are running.
C40_Witness ==
    /\ state = "Playing"
    /\ pc["timer"] = "idle"
    /\ realFill \in 1..29
    /\ current_buffer_percent = realFill
    /\ prebuffer_counter = PREBUFFER_TICKS
    /\ chain = "running"
    /\ ~i2sPaused

====
